---- MODULE Spec2Model ----
(***************************************************************************)
(* Download Job Orchestrator of xdcc-mcp: pack-range expansion, the        *)
(* connection pool, the job registry, the event handlers that fold the     *)
(* transfer's events into a job record, and the status projection.         *)
(*                                                                         *)
(* JavaScript strings that the code parses or trims are sequences of       *)
(* one-character strings (<<"1","-","3">> is "1-3"); strings that the code *)
(* only formats are TLA+ strings.  A JavaScript Set is a duplicate-free    *)
(* sequence in insertion order, which is what Array.from and size see.     *)
(* An optional value is <<>> (undefined) or <<v>>.                         *)
(***************************************************************************)
EXTENDS Integers, Sequences, FiniteSets, TLC

VARIABLES
    downloadJobs,    \* Map<string, DownloadJob>: job id -> reference into heap
    heap,            \* the DownloadJob objects, in allocation order
    ircConnections,  \* Map<string, XDCC>: "host:port" -> connection
    dirs,            \* the filesystem: directories that exist
    joins,           \* channel joins requested on connections, in order
    pc,              \* per job object: where its asynchronous start stands
    clock,           \* the wall clock read by new Date()
    expr,            \* pack expression under expansion (SpecExpand)
    expanded,        \* its expansion, <<>> until computed (SpecExpand)
    connects,        \* the calls of new XDCC.default(...) made so far, in order
    snapshot         \* the response of the last status query (SpecStatus)

vars == <<downloadJobs, heap, ircConnections, dirs, joins, pc, clock,
          expr, expanded, connects, snapshot>>

----------------------------------------------------------------------------
(* Bounds of the model *)

MaxLen == 4      \* longest enumerated pack expression (SpecExpand)
MaxJobs == 2     \* job objects created
MaxErrors == 2   \* pack-failed events delivered, over all jobs
MaxPacks == 4    \* most packs requested or reported for a job (SpecStatus)

----------------------------------------------------------------------------
(* JavaScript string primitives *)

Whitespace == {" "}

Digits == {"0", "1", "2", "3", "4", "5", "6", "7", "8", "9"}

DigitValue(c) ==
    CASE c = "0" -> 0 [] c = "1" -> 1 [] c = "2" -> 2 [] c = "3" -> 3
      [] c = "4" -> 4 [] c = "5" -> 5 [] c = "6" -> 6 [] c = "7" -> 7
      [] c = "8" -> 8 [] c = "9" -> 9

RECURSIVE TrimStart(_)
TrimStart(s) ==
    IF s # <<>> /\ Head(s) \in Whitespace THEN TrimStart(Tail(s)) ELSE s

RECURSIVE TrimEnd(_)
TrimEnd(s) ==
    IF s # <<>> /\ s[Len(s)] \in Whitespace
    THEN TrimEnd(SubSeq(s, 1, Len(s) - 1))
    ELSE s

\* String.prototype.trim
trim(s) == TrimEnd(TrimStart(s))

\* String.prototype.includes, for a one-character needle
includes(s, c) == \E i \in DOMAIN s : s[i] = c

\* String.prototype.split, for a one-character separator
RECURSIVE split(_, _)
split(s, sep) ==
    IF includes(s, sep)
    THEN LET i == CHOOSE k \in DOMAIN s :
                      /\ s[k] = sep
                      /\ \A m \in 1..(k - 1) : s[m] # sep
         IN <<SubSeq(s, 1, i - 1)>> \o split(SubSeq(s, i + 1, Len(s)), sep)
    ELSE <<s>>

RECURSIVE DecimalValue(_)
DecimalValue(ds) ==
    IF ds = <<>> THEN 0
    ELSE DecimalValue(SubSeq(ds, 1, Len(ds) - 1)) * 10 + DigitValue(ds[Len(ds)])

NaN == <<>>

isNaN(r) == r = NaN

\* parseInt(s, 10): leading whitespace is skipped, an optional sign is read,
\* then the longest prefix of digits; whatever follows is ignored.  NaN when
\* there is no digit.  The result is NaN or <<n>>.
parseInt(s) ==
    LET t == TrimStart(s)
        signed == t # <<>> /\ Head(t) \in {"+", "-"}
        sign == IF signed /\ Head(t) = "-" THEN -1 ELSE 1
        rest == IF signed THEN Tail(t) ELSE t
        k == CHOOSE n \in 0..Len(rest) :
                 /\ \A m \in 1..n : rest[m] \in Digits
                 /\ (n < Len(rest) => rest[n + 1] \notin Digits)
    IN IF k = 0 THEN NaN ELSE <<sign * DecimalValue(SubSeq(rest, 1, k))>>

\* new Set(iterable): first occurrences, in order
RECURSIVE NewSet(_)
NewSet(xs) ==
    IF xs = <<>> THEN <<>>
    ELSE LET front == NewSet(SubSeq(xs, 1, Len(xs) - 1))
             x == xs[Len(xs)]
         IN IF \E i \in DOMAIN front : front[i] = x THEN front
            ELSE Append(front, x)

\* Set.prototype.add
SetAdd(set, x) ==
    IF \E i \in DOMAIN set : set[i] = x THEN set ELSE Append(set, x)

Elements(set) == {set[i] : i \in DOMAIN set}

----------------------------------------------------------------------------
(* expandPacks *)

\* the callback of flatMap: the numbers one comma-separated part stands for
PartNumbers(part) ==
    LET trimmed == trim(part)
    IN IF includes(trimmed, "-")
       THEN LET pieces == split(trimmed, "-")
                startStr == trim(pieces[1])
                endStr == trim(pieces[2])
                start == parseInt(startStr)
                end == parseInt(endStr)
            IN IF isNaN(start) \/ isNaN(end) THEN <<>>
               ELSE IF start[1] > end[1] THEN <<>>
               ELSE [i \in 1..(end[1] - start[1] + 1) |-> start[1] + i - 1]
       ELSE LET num == parseInt(trimmed)
            IN IF isNaN(num) THEN <<>> ELSE <<num[1]>>

RECURSIVE FlatMapParts(_)
FlatMapParts(parts) ==
    IF parts = <<>> THEN <<>>
    ELSE PartNumbers(Head(parts)) \o FlatMapParts(Tail(parts))

expandPacks(packsString) == NewSet(FlatMapParts(split(packsString, ",")))

----------------------------------------------------------------------------
(* Values of the model *)

\* "job_" followed by the hexadecimal digits of the random bytes
JobId(n) == "job_" \o ToString(n)

\* generateJobId: crypto.randomBytes(8) draws the id at random, so any id may
\* come out: one that is already a key of the registry, or one that is not.
\* The ids that are not in the registry are all alike; the least stands for them.
generateJobId(registry) ==
    DOMAIN registry \cup {JobId(Cardinality(DOMAIN registry) + 1)}

UnknownJobId == "job_doesnotexist"

HostInputs == {<<" ", "h", "1">>}

DefaultPort == 6667

ChannelInputs == {<<"#", "c">>}

BotInputs == {<<"b", "o", "t">>}

PackInputs == {<<"1", "-", "2">>, <<" ", "2">>, <<"x">>}

PathInputs == {<<"d", "1", " ">>}

NicknameInputs == {<<"n", "1">>}

Params ==
    [host : HostInputs, port : {DefaultPort}, channel : ChannelInputs,
     bot : BotInputs, packs : PackInputs, download_path : PathInputs,
     nickname : NicknameInputs]

\* xdccJob.show().success: the identifiers, as strings, that the transfer
\* reports as completed so far; the list is the session's, so it can name
\* packs this job never asked for.
SuccessLists ==
    {<<<<"1">>>>, <<<<"1">>, <<"2">>>>}

ErrorMessages == {"transfer failed"}

StartErrors == {[message |-> "bot not found", stack |-> <<"Error: bot not found">>]}

Statuses == {"in_progress", "completed", "failed", "partially_completed"}

Refs == 1..Len(heap)

----------------------------------------------------------------------------
(* The job record and the callbacks that mutate it *)

\* NewJob with the end time stamped at creation
NewJobStamped(jobId, sanitizedParams, requestedPacks, now) ==
    [id |-> jobId,
     host |-> sanitizedParams.host,
     port |-> sanitizedParams.port,
     channel |-> sanitizedParams.channel,
     bot |-> sanitizedParams.bot,
     requestedPacks |-> requestedPacks,
     completedPacks |-> <<>>,
     failedPacks |-> <<>>,
     errors |-> <<>>,
     startTime |-> <<now>>,
     endTime |-> <<now>>,
     status |-> "in_progress"]

\* the object literal of a new job; endTime is an absent property
NewJob(jobId, sanitizedParams, requestedPacks, now) ==
    [id |-> jobId,
     host |-> sanitizedParams.host,
     port |-> sanitizedParams.port,
     channel |-> sanitizedParams.channel,
     bot |-> sanitizedParams.bot,
     requestedPacks |-> requestedPacks,
     completedPacks |-> <<>>,
     failedPacks |-> <<>>,
     errors |-> <<>>,
     startTime |-> <<now>>,
     endTime |-> <<>>,
     status |-> "in_progress"]

\* Number(string) for a string of decimal digits
Number(s) == DecimalValue(s)

RECURSIVE AddAll(_, _)
AddAll(set, xs) ==
    IF xs = <<>> THEN set ELSE AddAll(SetAdd(set, Number(Head(xs))), Tail(xs))

\* OnDownloaded that also strikes the reported packs off requestedPacks
OnDownloadedStrikesRequested(job, success) ==
    LET completedPacks == AddAll(job.completedPacks, success)
        isOutstanding(pack) == \A i \in DOMAIN completedPacks : completedPacks[i] # pack
    IN [job EXCEPT
          !.completedPacks = completedPacks,
          !.requestedPacks = SelectSeq(@, isOutstanding),
          !.status = IF Len(completedPacks) = Len(job.requestedPacks)
                     THEN "completed" ELSE @]

\* OnDownloaded cut off after its first half: the packs are added, the
\* completion test is not made
OnDownloadedAddsOnly(job, success) ==
    [job EXCEPT !.completedPacks = AddAll(job.completedPacks, success)]

\* OnDownloaded with completedPacks replaced by the reported list instead of
\* added to
OnDownloadedReplaces(job, success) ==
    LET completedPacks == AddAll(<<>>, success)
    IN [job EXCEPT
          !.completedPacks = completedPacks,
          !.status = IF Len(completedPacks) = Len(job.requestedPacks)
                     THEN "completed" ELSE @]

\* OnDownloaded with the completion test written >= instead of ===
OnDownloadedAtLeast(job, success) ==
    LET completedPacks == AddAll(job.completedPacks, success)
    IN [job EXCEPT
          !.completedPacks = completedPacks,
          !.status = IF Len(completedPacks) >= Len(job.requestedPacks)
                     THEN "completed" ELSE @]

\* xdccJob.on('downloaded', ...)
OnDownloaded(job, success) ==
    LET completedPacks == AddAll(job.completedPacks, success)
    IN [job EXCEPT
          !.completedPacks = completedPacks,
          !.status = IF Len(completedPacks) = Len(job.requestedPacks)
                     THEN "completed" ELSE @]

\* OnDownloading that takes the progress report as a sign of life and puts
\* the job back in progress
OnDownloadingReopens(job) == [job EXCEPT !.status = "in_progress"]

\* xdccJob.on('downloading', ...): logs, nothing else
OnDownloading(job) == job

\* OnError that also records the packs still missing as failed
OnErrorRecordsFailedPacks(job, errorMessage) ==
    [job EXCEPT
       !.errors = Append(@, [message |-> errorMessage, stack |-> <<"Error">>]),
       !.failedPacks = SelectSeq(job.requestedPacks,
                                 LAMBDA p : p \notin Elements(job.completedPacks)),
       !.status = "failed"]

\* OnError that keeps only the latest error
OnErrorKeepsLast(job, errorMessage) ==
    [job EXCEPT
       !.errors = <<[message |-> errorMessage, stack |-> <<"Error">>]>>,
       !.status = "failed"]

\* OnError failing the job only when no pack has completed yet
OnErrorKeepsPartial(job, errorMessage) ==
    [job EXCEPT
       !.errors = Append(@, [message |-> errorMessage, stack |-> <<"Error">>]),
       !.status = IF job.completedPacks = <<>> THEN "failed"
                  ELSE "partially_completed"]

\* xdccJob.on('error', ...)
OnError(job, errorMessage) ==
    [job EXCEPT
       !.errors = Append(@, [message |-> errorMessage, stack |-> <<"Error">>]),
       !.status = "failed"]

\* OnStartRejected that fails the job and drops the error
OnStartRejectedDropsError(job, error) == [job EXCEPT !.status = "failed"]

\* OnStartRejected that logs the error and leaves the status alone
OnStartRejectedKeepsStatus(job, error) ==
    [job EXCEPT
       !.errors = Append(@, [message |-> error.message, stack |-> error.stack])]

\* .catch of xdcc.download(...)
OnStartRejected(job, error) ==
    [job EXCEPT
       !.errors = Append(@, [message |-> error.message, stack |-> error.stack]),
       !.status = "failed"]

----------------------------------------------------------------------------
(* The connection pool *)

RECURSIVE IntToChars(_)
IntToChars(n) ==
    LET d == CHOOSE c \in Digits : DigitValue(c) = n % 10
    IN IF n < 10 THEN <<d>> ELSE Append(IntToChars(n \div 10), d)

connectionKey(host, port) == host \o <<":">> \o IntToChars(port)

\* one call of new XDCC.default({host, port, nickname, path}); ok: whether it
\* returned a connection
Connect(key, nickname, downloadPath, ok) ==
    [key |-> key, nickname |-> nickname, path |-> downloadPath, ok |-> ok]

\* getXdccConnection with the directory ensured before the pool is looked at
getXdccConnectionEnsuresDir(conns, fs, calls, host, port, nickname, downloadPath, mkdirOk, connectOk) ==
    LET key == connectionKey(host, port)
    IN IF downloadPath \notin fs /\ ~mkdirOk
       THEN [conns |-> conns, dirs |-> fs, connects |-> calls, threw |-> TRUE]
       ELSE IF key \in DOMAIN conns
       THEN [conns |-> conns, dirs |-> fs \cup {downloadPath},
             connects |-> calls, threw |-> FALSE]
       ELSE IF ~connectOk
       THEN [conns |-> conns, dirs |-> fs \cup {downloadPath},
             connects |-> Append(calls, Connect(key, nickname, downloadPath, FALSE)),
             threw |-> TRUE]
       ELSE [conns |-> (key :> [host |-> host, port |-> port,
                                nickname |-> nickname, path |-> downloadPath,
                                handle |-> Len(calls) + 1])
                       @@ conns,
             dirs |-> fs \cup {downloadPath},
             connects |-> Append(calls, Connect(key, nickname, downloadPath, TRUE)),
             threw |-> FALSE]

\* getXdccConnection without the test for a connection already in the pool
getXdccConnectionUnconditional(conns, fs, calls, host, port, nickname, downloadPath, mkdirOk, connectOk) ==
    LET key == connectionKey(host, port)
    IN IF downloadPath \notin fs /\ ~mkdirOk
       THEN [conns |-> conns, dirs |-> fs, connects |-> calls, threw |-> TRUE]
       ELSE IF ~connectOk
       THEN [conns |-> conns, dirs |-> fs \cup {downloadPath},
             connects |-> Append(calls, Connect(key, nickname, downloadPath, FALSE)),
             threw |-> TRUE]
       ELSE [conns |-> [k \in DOMAIN conns \cup {key} |->
                           IF k = key
                           THEN [host |-> host, port |-> port,
                                 nickname |-> nickname, path |-> downloadPath,
                                 handle |-> Len(calls) + 1]
                           ELSE conns[k]],
             dirs |-> fs \cup {downloadPath},
             connects |-> Append(calls, Connect(key, nickname, downloadPath, TRUE)),
             threw |-> FALSE]

\* getXdccConnection.  calls are the constructor calls made so far; mkdirOk and
\* connectOk are the environment's answers: whether fs.mkdirSync and the XDCC
\* constructor succeed if they are called.  The result holds the pool, the
\* directories and the constructor calls as the call leaves them and whether
\* it threw; the connection it returns is conns[key].  A connection is the
\* object the constructor returned: its configuration and its identity, handle,
\* the position of the constructor call that made it.
getXdccConnection(conns, fs, calls, host, port, nickname, downloadPath, mkdirOk, connectOk) ==
    LET key == connectionKey(host, port)
    IN IF key \in DOMAIN conns
       THEN [conns |-> conns, dirs |-> fs, connects |-> calls, threw |-> FALSE]
       ELSE IF downloadPath \notin fs /\ ~mkdirOk
       THEN [conns |-> conns, dirs |-> fs, connects |-> calls, threw |-> TRUE]
       ELSE IF ~connectOk
       THEN [conns |-> conns, dirs |-> fs \cup {downloadPath},
             connects |-> Append(calls, Connect(key, nickname, downloadPath, FALSE)),
             threw |-> TRUE]
       ELSE [conns |-> (key :> [host |-> host, port |-> port,
                                nickname |-> nickname, path |-> downloadPath,
                                handle |-> Len(calls) + 1])
                       @@ conns,
             dirs |-> fs \cup {downloadPath},
             connects |-> Append(calls, Connect(key, nickname, downloadPath, TRUE)),
             threw |-> FALSE]

----------------------------------------------------------------------------
(* getDownloadStatus *)

\* ProgressPercent with Math.floor in place of Math.round
ProgressPercentFloor(totalCompleted, totalRequested) ==
    IF totalRequested > 0
    THEN (100 * totalCompleted) \div totalRequested
    ELSE 0

\* Math.round((totalCompleted / totalRequested) * 100), halves rounded up
ProgressPercent(totalCompleted, totalRequested) ==
    IF totalRequested > 0
    THEN (200 * totalCompleted + totalRequested) \div (2 * totalRequested)
    ELSE 0

StatusMessage(job, totalCompleted, totalRequested, progressPercent) ==
    CASE job.status = "in_progress" ->
           "Download in progress: " \o ToString(totalCompleted) \o "/"
           \o ToString(totalRequested) \o " packs completed ("
           \o ToString(progressPercent) \o "%)"
      [] job.status = "completed" ->
           "Download completed: all " \o ToString(totalRequested)
           \o " packs downloaded successfully"
      [] job.status = "failed" ->
           "Download failed: " \o ToString(Len(job.errors)) \o " errors occurred"
      [] job.status = "partially_completed" ->
           "Download partially completed: " \o ToString(totalCompleted) \o "/"
           \o ToString(totalRequested) \o " packs downloaded, "
           \o ToString(Len(job.failedPacks)) \o " packs failed"

\* getDownloadStatus whose not-found branch leaves the status of the response
\* as it was initialised
getDownloadStatusKeepsDefault(registry, objects, job_id) ==
    IF job_id \notin DOMAIN registry
    THEN [job_id |-> job_id,
          status |-> "in_progress",
          completedPacks |-> <<>>,
          failedPacks |-> <<>>,
          progress |-> "0%",
          message |-> "Download job with ID " \o job_id \o " not found",
          errors |-> <<>>,
          startTime |-> <<>>,
          endTime |-> <<>>]
    ELSE LET job == objects[registry[job_id]]
             totalRequested == Len(job.requestedPacks)
             totalCompleted == Len(job.completedPacks)
             progressPercent == ProgressPercent(totalCompleted, totalRequested)
         IN [job_id |-> job_id,
             status |-> job.status,
             completedPacks |-> job.completedPacks,
             failedPacks |-> job.failedPacks,
             progress |-> ToString(progressPercent) \o "% ("
                          \o ToString(totalCompleted) \o "/"
                          \o ToString(totalRequested) \o ")",
             message |-> StatusMessage(job, totalCompleted, totalRequested,
                                       progressPercent),
             errors |-> job.errors,
             startTime |-> job.startTime,
             endTime |-> IF job.status # "in_progress" THEN job.endTime ELSE <<>>]

\* the response for job_id, given the registry and the job objects
getDownloadStatus(registry, objects, job_id) ==
    IF job_id \notin DOMAIN registry
    THEN [job_id |-> job_id,
          status |-> "failed",
          completedPacks |-> <<>>,
          failedPacks |-> <<>>,
          progress |-> "0%",
          message |-> "Download job with ID " \o job_id \o " not found",
          errors |-> <<>>,
          startTime |-> <<>>,
          endTime |-> <<>>]
    ELSE LET job == objects[registry[job_id]]
             totalRequested == Len(job.requestedPacks)
             totalCompleted == Len(job.completedPacks)
             progressPercent == ProgressPercent(totalCompleted, totalRequested)
         IN [job_id |-> job_id,
             status |-> job.status,
             completedPacks |-> job.completedPacks,
             failedPacks |-> job.failedPacks,
             progress |-> ToString(progressPercent) \o "% ("
                          \o ToString(totalCompleted) \o "/"
                          \o ToString(totalRequested) \o ")",
             message |-> StatusMessage(job, totalCompleted, totalRequested,
                                       progressPercent),
             errors |-> job.errors,
             startTime |-> job.startTime,
             endTime |-> IF job.status # "in_progress" THEN job.endTime ELSE <<>>]

----------------------------------------------------------------------------
(* initiateDownload, its synchronous part *)

\* NoValidPacks with the emptiness test left out
NoValidPacksUnchecked(requestedPacks) == FALSE

\* requestedPacks.size === 0
NoValidPacks(requestedPacks) == Len(requestedPacks) = 0

sanitize(params) ==
    [params EXCEPT
       !.host = trim(@), !.channel = trim(@), !.bot = trim(@),
       !.packs = trim(@), !.download_path = trim(@), !.nickname = trim(@)]

\* initiateDownload that joins the channel only on a connection it has just
\* created
initiateDownloadJoinsIfNew(params, jobId, mkdirOk, connectOk) ==
    LET sanitizedParams == sanitize(params)
        requestedPacks == expandPacks(sanitizedParams.packs)
        unchanged == [downloadJobs |-> downloadJobs, heap |-> heap,
                      ircConnections |-> ircConnections, dirs |-> dirs,
                      joins |-> joins, clock |-> clock, connects |-> connects,
                      scheduled |-> FALSE]
        job == NewJob(jobId, sanitizedParams, requestedPacks, clock)
        created == [unchanged EXCEPT
                      !.heap = Append(heap, job),
                      !.downloadJobs = (jobId :> (Len(heap) + 1)) @@ downloadJobs,
                      !.clock = clock + 1]
        xdcc == getXdccConnection(ircConnections, dirs, connects,
                                  sanitizedParams.host,
                                  sanitizedParams.port, sanitizedParams.nickname,
                                  sanitizedParams.download_path, mkdirOk, connectOk)
        acquired == [created EXCEPT !.ircConnections = xdcc.conns,
                                    !.dirs = xdcc.dirs,
                                    !.connects = xdcc.connects]
    IN IF NoValidPacks(requestedPacks)
       THEN unchanged @@ [outcome |-> "ValidationError", response |-> <<>>]
       ELSE IF xdcc.threw
       THEN acquired @@ [outcome |-> "Error", response |-> <<>>]
       ELSE [acquired EXCEPT
               !.joins = IF DOMAIN xdcc.conns = DOMAIN ircConnections
                         THEN joins
                         ELSE Append(joins,
                                     [key |-> connectionKey(sanitizedParams.host,
                                                            sanitizedParams.port),
                                      channel |-> sanitizedParams.channel]),
               !.scheduled = TRUE]
            @@ [outcome |-> "returned",
                response |-> <<[job_id |-> jobId,
                                message |-> "Download started for "
                                            \o ToString(Len(requestedPacks))
                                            \o " file(s)",
                                status |-> "in_progress"]>>]

\* What one call does to the state and what its caller gets.  jobId is what
\* generateJobId returns; mkdirOk and connectOk as in getXdccConnection.
\* outcome: "ValidationError" and "Error" are exceptions thrown to the caller,
\* "returned" is a normal return of response.  scheduled: whether setTimeout
\* was reached.
initiateDownload(params, jobId, mkdirOk, connectOk) ==
    LET sanitizedParams == sanitize(params)
        requestedPacks == expandPacks(sanitizedParams.packs)
        unchanged == [downloadJobs |-> downloadJobs, heap |-> heap,
                      ircConnections |-> ircConnections, dirs |-> dirs,
                      joins |-> joins, clock |-> clock, connects |-> connects,
                      scheduled |-> FALSE]
        job == NewJob(jobId, sanitizedParams, requestedPacks, clock)
        created == [unchanged EXCEPT
                      !.heap = Append(heap, job),
                      !.downloadJobs = (jobId :> (Len(heap) + 1)) @@ downloadJobs,
                      !.clock = clock + 1]
        xdcc == getXdccConnection(ircConnections, dirs, connects,
                                  sanitizedParams.host,
                                  sanitizedParams.port, sanitizedParams.nickname,
                                  sanitizedParams.download_path, mkdirOk, connectOk)
        acquired == [created EXCEPT !.ircConnections = xdcc.conns,
                                    !.dirs = xdcc.dirs,
                                    !.connects = xdcc.connects]
    IN IF NoValidPacks(requestedPacks)
       THEN unchanged @@ [outcome |-> "ValidationError", response |-> <<>>]
       ELSE IF xdcc.threw
       THEN acquired @@ [outcome |-> "Error", response |-> <<>>]
       ELSE [acquired EXCEPT
               !.joins = Append(joins,
                                [key |-> connectionKey(sanitizedParams.host,
                                                       sanitizedParams.port),
                                 channel |-> sanitizedParams.channel]),
               !.scheduled = TRUE]
            @@ [outcome |-> "returned",
                response |-> <<[job_id |-> jobId,
                                message |-> "Download started for "
                                            \o ToString(Len(requestedPacks))
                                            \o " file(s)",
                                status |-> "in_progress"]>>]

----------------------------------------------------------------------------
(* Actions *)

\* pc of a job object:
\*   "threw"    initiateDownload threw after creating it; nothing is scheduled
\*   "timer"    initiateDownload returned; the setTimeout callback is pending
\*   "pending"  xdcc.download was called; its promise is not settled
\*   "wired"    the promise resolved and the three handlers are registered
\*   "rejected" the promise rejected and the .catch callback ran

\* Initiate with the transfer started and awaited inside the call, so that the
\* handlers are registered by the time it returns
InitiateStartsInline(params, jobId, mkdirOk, connectOk) ==
    /\ Len(heap) < MaxJobs
    /\ \E r \in {initiateDownload(params, jobId, mkdirOk, connectOk)} :
          /\ downloadJobs' = r.downloadJobs
          /\ heap' = r.heap
          /\ ircConnections' = r.ircConnections
          /\ dirs' = r.dirs
          /\ joins' = r.joins
          /\ clock' = r.clock
          /\ connects' = r.connects
          /\ pc' = IF Len(r.heap) = Len(heap) THEN pc
                   ELSE Append(pc, IF r.scheduled THEN "wired" ELSE "threw")
    /\ UNCHANGED <<expr, expanded, snapshot>>

\* One call of initiateDownload.  The function is synchronous and the start of
\* the transfer is handed to setTimeout, so the call runs to its return (or
\* throw) in one step and leaves the start pending.
Initiate(params, jobId, mkdirOk, connectOk) ==
    /\ Len(heap) < MaxJobs
    /\ \E r \in {initiateDownload(params, jobId, mkdirOk, connectOk)} :
          /\ downloadJobs' = r.downloadJobs
          /\ heap' = r.heap
          /\ ircConnections' = r.ircConnections
          /\ dirs' = r.dirs
          /\ joins' = r.joins
          /\ clock' = r.clock
          /\ connects' = r.connects
          /\ pc' = IF Len(r.heap) = Len(heap) THEN pc
                   ELSE Append(pc, IF r.scheduled THEN "timer" ELSE "threw")
    /\ UNCHANGED <<expr, expanded, snapshot>>

\* TimerFires that gives the start up as timed out and fails the job
TimerFiresTimesOut(ref) ==
    /\ pc[ref] = "timer"
    /\ pc' = [pc EXCEPT ![ref] = "rejected"]
    /\ heap' = [heap EXCEPT ![ref].status = "failed"]
    /\ UNCHANGED <<downloadJobs, ircConnections, dirs, joins, clock,
                   expr, expanded, connects, snapshot>>

\* the setTimeout callback: xdcc.download(bot, packs) is called
TimerFires(ref) ==
    /\ pc[ref] = "timer"
    /\ pc' = [pc EXCEPT ![ref] = "pending"]
    /\ UNCHANGED <<downloadJobs, heap, ircConnections, dirs, joins, clock,
                   expr, expanded, connects, snapshot>>

\* .then: the transfer started, the handlers are registered
StartResolved(ref) ==
    /\ pc[ref] = "pending"
    /\ pc' = [pc EXCEPT ![ref] = "wired"]
    /\ UNCHANGED <<downloadJobs, heap, ircConnections, dirs, joins, clock,
                   expr, expanded, connects, snapshot>>

\* .catch: the external capability rejected the start
StartRejected(ref, error) ==
    /\ pc[ref] = "pending"
    /\ pc' = [pc EXCEPT ![ref] = "rejected"]
    /\ heap' = [heap EXCEPT ![ref] = OnStartRejected(@, error)]
    /\ UNCHANGED <<downloadJobs, ircConnections, dirs, joins, clock,
                   expr, expanded, connects, snapshot>>

\* a 'downloading' event reaches the job's handler
Downloading(ref) ==
    /\ pc[ref] = "wired"
    /\ heap' = [heap EXCEPT ![ref] = OnDownloading(@)]
    /\ UNCHANGED <<downloadJobs, ircConnections, dirs, joins, pc, clock,
                   expr, expanded, connects, snapshot>>

\* the pack-failed events delivered so far: the entries of the errors logs of
\* the jobs whose start resolved
RECURSIVE PackFailures(_)
PackFailures(objects) ==
    IF objects = <<>> THEN 0
    ELSE PackFailures(SubSeq(objects, 1, Len(objects) - 1))
         + (IF pc[Len(objects)] = "wired"
            THEN Len(objects[Len(objects)].errors) ELSE 0)

\* Downloaded with the event folded into every job whose handlers are
\* registered on the same connection
DownloadedOnConnection(ref, success) ==
    /\ pc[ref] = "wired"
    /\ heap' = [other \in DOMAIN heap |->
                  IF /\ pc[other] = "wired"
                     /\ heap[other].host = heap[ref].host
                     /\ heap[other].port = heap[ref].port
                  THEN OnDownloaded(heap[other], success)
                  ELSE heap[other]]
    /\ UNCHANGED <<downloadJobs, ircConnections, dirs, joins, pc, clock,
                   expr, expanded, connects, snapshot>>

\* a 'downloaded' event reaches the job's handler, with the success list
Downloaded(ref, success) ==
    /\ pc[ref] = "wired"
    /\ heap' = [heap EXCEPT ![ref] = OnDownloaded(@, success)]
    /\ UNCHANGED <<downloadJobs, ircConnections, dirs, joins, pc, clock,
                   expr, expanded, connects, snapshot>>

\* an 'error' event reaches the job's handler
ErrorEvent(ref, errorMessage) ==
    /\ pc[ref] = "wired"
    /\ PackFailures(heap) < MaxErrors
    /\ heap' = [heap EXCEPT ![ref] = OnError(@, errorMessage)]
    /\ UNCHANGED <<downloadJobs, ircConnections, dirs, joins, pc, clock,
                   expr, expanded, connects, snapshot>>

\* a status query: its caller gets getDownloadStatus(...), no state is written
GetDownloadStatus(job_id) ==
    /\ getDownloadStatus(downloadJobs, heap, job_id).job_id = job_id
    /\ UNCHANGED <<downloadJobs, heap, ircConnections, dirs, joins, pc, clock,
                   expr, expanded, connects, snapshot>>

Init ==
    /\ downloadJobs = <<>>
    /\ heap = <<>>
    /\ ircConnections = <<>>
    /\ dirs \in {{}, {<<"d", "1">>}}
    /\ joins = <<>>
    /\ pc = <<>>
    /\ clock = 0
    /\ expr = <<>>
    /\ expanded = <<>>
    /\ connects = <<>>
    /\ snapshot = <<>>

Next ==
    \/ \E params \in Params, jobId \in generateJobId(downloadJobs),
          mkdirOk \in BOOLEAN, connectOk \in BOOLEAN :
           Initiate(params, jobId, mkdirOk, connectOk)
    \/ \E ref \in Refs : TimerFires(ref)
    \/ \E ref \in Refs : StartResolved(ref)
    \/ \E ref \in Refs, error \in StartErrors : StartRejected(ref, error)
    \/ \E ref \in Refs : Downloading(ref)
    \/ \E ref \in Refs, success \in SuccessLists : Downloaded(ref, success)
    \/ \E ref \in Refs, errorMessage \in ErrorMessages :
           ErrorEvent(ref, errorMessage)
    \/ \E job_id \in DOMAIN downloadJobs \cup {UnknownJobId} :
           GetDownloadStatus(job_id)

Spec == Init /\ [][Next]_vars

----------------------------------------------------------------------------
(* expandPacks on its own: every short pack expression, and the documented *)
(* examples                                                                *)

Alphabet == {"1", "2", "3", "-", ",", " ", "x"}

Strings(n) == UNION {[1..k -> Alphabet] : k \in 0..n}

ExampleExprs ==
    {<<"1", "-", "3", ",", "5", ",", "7", "-", "9">>,
     <<"2", "-", "1", ",", "a", "b", "c", ",", "4">>,
     <<"a", "b", "c">>}

ExprInputs == Strings(MaxLen) \cup ExampleExprs

InitExpand ==
    /\ downloadJobs = <<>>
    /\ heap = <<>>
    /\ ircConnections = <<>>
    /\ dirs = {}
    /\ joins = <<>>
    /\ pc = <<>>
    /\ clock = 0
    /\ expr \in ExprInputs
    /\ expanded = <<>>
    /\ connects = <<>>
    /\ snapshot = <<>>

ExpandStep ==
    /\ expanded = <<>>
    /\ expanded' = <<expandPacks(expr)>>
    /\ UNCHANGED <<downloadJobs, heap, ircConnections, dirs, joins, pc, clock,
                   expr, connects, snapshot>>

NextExpand == ExpandStep

SpecExpand == InitExpand /\ [][NextExpand]_vars

----------------------------------------------------------------------------
(* The connection pool under calls that differ in host, nickname and       *)
(* download path                                                           *)

PoolHostInputs == {<<"h", "1">>, <<"h", "2">>}

PoolNicknameInputs == {<<"n", "1">>, <<"n", "2">>}

PoolPathInputs == {<<"d", "1">>, <<"d", "2">>}

PoolParams ==
    [host : PoolHostInputs, port : {DefaultPort}, channel : ChannelInputs,
     bot : BotInputs, packs : {<<"1">>}, download_path : PoolPathInputs,
     nickname : PoolNicknameInputs]

NextPool ==
    \E params \in PoolParams, jobId \in generateJobId(downloadJobs),
       mkdirOk \in BOOLEAN, connectOk \in BOOLEAN :
        Initiate(params, jobId, mkdirOk, connectOk)

SpecPool == Init /\ [][NextPool]_vars

----------------------------------------------------------------------------
(* getDownloadStatus on its own: one job that requested packs 1..r, to     *)
(* which the handlers have reported packs 1..c and possibly a failure, and *)
(* queries whose response is kept                                          *)

StatusParams(r) ==
    [host |-> <<"h", "1">>, port |-> DefaultPort, channel |-> <<"#", "c">>,
     bot |-> <<"b", "o", "t">>, packs |-> <<"1", "-">> \o IntToChars(r),
     download_path |-> <<"d", "1">>, nickname |-> <<"n", "1">>]

\* the job record after initiateDownload and the events named
StatusJob(r, c, failed) ==
    LET sanitizedParams == sanitize(StatusParams(r))
        created == NewJob(JobId(1), sanitizedParams,
                          expandPacks(sanitizedParams.packs), 0)
        reported == IF c = 0 THEN created
                    ELSE OnDownloaded(created, [i \in 1..c |-> IntToChars(i)])
    IN IF failed THEN OnError(reported, "transfer failed") ELSE reported

InitStatus ==
    \E r \in 1..MaxPacks, c \in 0..MaxPacks, failed \in BOOLEAN :
        LET sanitizedParams == sanitize(StatusParams(r))
            xdcc == getXdccConnection(<<>>, {}, <<>>, sanitizedParams.host,
                                      sanitizedParams.port,
                                      sanitizedParams.nickname,
                                      sanitizedParams.download_path, TRUE, TRUE)
        IN /\ downloadJobs = (JobId(1) :> 1)
           /\ heap = <<StatusJob(r, c, failed)>>
           /\ ircConnections = xdcc.conns
           /\ dirs = xdcc.dirs
           /\ connects = xdcc.connects
           /\ joins = <<[key |-> connectionKey(sanitizedParams.host,
                                               sanitizedParams.port),
                         channel |-> sanitizedParams.channel]>>
           /\ pc = <<"wired">>
           /\ clock = 1
           /\ expr = <<>>
           /\ expanded = <<>>
           /\ snapshot = <<>>

\* StatusQuery that stamps the end time of a finished job while answering
StatusQueryStampsEndTime(job_id) ==
    /\ snapshot' = <<getDownloadStatus(downloadJobs, heap, job_id)>>
    /\ heap' = [ref \in DOMAIN heap |->
                  IF job_id \in DOMAIN downloadJobs /\ downloadJobs[job_id] = ref
                     /\ heap[ref].status # "in_progress"
                  THEN [heap[ref] EXCEPT !.endTime = <<clock>>]
                  ELSE heap[ref]]
    /\ UNCHANGED <<downloadJobs, ircConnections, dirs, joins, pc, clock,
                   expr, expanded, connects>>

\* a status query; the caller keeps the response
StatusQuery(job_id) ==
    /\ snapshot' = <<getDownloadStatus(downloadJobs, heap, job_id)>>
    /\ UNCHANGED <<downloadJobs, heap, ircConnections, dirs, joins, pc, clock,
                   expr, expanded, connects>>

NextStatus ==
    \E job_id \in DOMAIN downloadJobs \cup {UnknownJobId} : StatusQuery(job_id)

SpecStatus == InitStatus /\ [][NextStatus]_vars

----------------------------------------------------------------------------
(* The handlers of one started transfer, under pack failures that carry    *)
(* different messages                                                      *)

EventErrorMessages == {"transfer failed", "no such pack"}

NextEvents ==
    \E ref \in Refs :
        \/ Downloading(ref)
        \/ \E success \in SuccessLists : Downloaded(ref, success)
        \/ \E errorMessage \in EventErrorMessages : ErrorEvent(ref, errorMessage)

SpecEvents == InitStatus /\ [][NextEvents]_vars

----------------------------------------------------------------------------
(* Properties *)

Terminal == {"completed", "failed"}

Numbers(success) == {Number(success[i]) : i \in DOMAIN success}

\* C1: once a job's status is completed or failed, no later step changes its
\* status or its endTime.
C1_TerminalStable ==
    [][\A ref \in Refs :
          heap[ref].status \in Terminal =>
              /\ heap'[ref].status = heap[ref].status
              /\ heap'[ref].endTime = heap[ref].endTime]_vars

\* C2: for every job, completedPacks and failedPacks are disjoint and each is
\* a subset of requestedPacks.
C2_PacksWithinRequested ==
    \A ref \in Refs :
        /\ Elements(heap[ref].completedPacks) \cap Elements(heap[ref].failedPacks) = {}
        /\ Elements(heap[ref].completedPacks) \subseteq Elements(heap[ref].requestedPacks)
        /\ Elements(heap[ref].failedPacks) \subseteq Elements(heap[ref].requestedPacks)

\* C3: for every job, endTime is set if and only if status is not in_progress.
C3_EndTimeIffNotInProgress ==
    \A ref \in Refs :
        (heap[ref].endTime # <<>>) <=> (heap[ref].status # "in_progress")

\* C4: a pack-failed event folded into an in_progress job appends exactly one
\* entry to its errors and makes its status failed in that step, whatever
\* packs have completed.
C4_ErrorFailsJob ==
    [][\A ref \in Refs, errorMessage \in ErrorMessages :
          (heap[ref].status = "in_progress" /\ ErrorEvent(ref, errorMessage)) =>
              /\ Len(heap'[ref].errors) = Len(heap[ref].errors) + 1
              /\ SubSeq(heap'[ref].errors, 1, Len(heap[ref].errors)) = heap[ref].errors
              /\ heap'[ref].errors[Len(heap'[ref].errors)].message = errorMessage
              /\ heap'[ref].status = "failed"]_vars

\* C4 witness: a job failed by its first error while one of its two packs was
\* completed and the other outstanding.
C4_Witness ==
    \E ref \in Refs :
        /\ heap[ref].status = "failed"
        /\ Len(heap[ref].errors) = 1
        /\ heap[ref].requestedPacks = <<1, 2>>
        /\ heap[ref].completedPacks = <<1>>

\* C5: a pack-completed event folded into an in_progress job adds the newly
\* completed packs to completedPacks, and the status becomes completed in that
\* step iff completedPacks then has as many entries as requestedPacks;
\* otherwise it stays in_progress.
C5_DownloadedCompletesAtFullSize ==
    [][\A ref \in Refs, success \in SuccessLists :
          (heap[ref].status = "in_progress" /\ Downloaded(ref, success)) =>
              LET before == Elements(heap[ref].completedPacks)
                  after == Elements(heap'[ref].completedPacks)
                  requested == Elements(heap[ref].requestedPacks)
              IN /\ before \subseteq after
                 /\ (Numbers(success) \cap requested) \subseteq after
                 /\ after \subseteq before \cup Numbers(success)
                 /\ Len(heap'[ref].completedPacks) = Cardinality(after)
                 /\ IF Len(heap'[ref].completedPacks) = Len(heap[ref].requestedPacks)
                    THEN heap'[ref].status = "completed"
                    ELSE heap'[ref].status = "in_progress"]_vars

\* C5 witness: a job whose two requested packs were both reported and that
\* became completed with no error.
C5_Witness ==
    \E ref \in Refs :
        /\ heap[ref].status = "completed"
        /\ heap[ref].requestedPacks = <<1, 2>>
        /\ heap[ref].completedPacks = <<1, 2>>
        /\ heap[ref].errors = <<>>

\* C6: once every requested pack of a job has been reported completed, with no
\* pack failure and no start rejection, a status query returns completed,
\* completedPacks equal to the requested packs and progress "100% (n/n)".
C6_AllReportedShowsCompleted ==
    \A job_id \in DOMAIN downloadJobs :
        LET ref == downloadJobs[job_id]
            job == heap[ref]
            n == Len(job.requestedPacks)
            response == getDownloadStatus(downloadJobs, heap, job_id)
        IN (/\ pc[ref] = "wired"
            /\ job.errors = <<>>
            /\ Elements(job.requestedPacks) \subseteq Elements(job.completedPacks)) =>
               /\ response.status = "completed"
               /\ Elements(response.completedPacks) = Elements(job.requestedPacks)
               /\ Len(response.completedPacks) = n
               /\ response.progress =
                      "100% (" \o ToString(n) \o "/" \o ToString(n) \o ")"

\* C7: a rejected start makes the job failed and appends the rejecting error;
\* it is handled in a step of its own, taken from the pending start of a call
\* that returned, and touches neither the registry nor any other job.
C7_StartRejectionFailsJob ==
    [][/\ \A ref \in Refs :
            (pc'[ref] = "rejected" /\ pc[ref] # "rejected") =>
                /\ pc[ref] = "pending"
                /\ heap'[ref].status = "failed"
                /\ \E error \in StartErrors :
                       heap'[ref].errors =
                           Append(heap[ref].errors,
                                  [message |-> error.message, stack |-> error.stack])
                /\ downloadJobs' = downloadJobs
                /\ Len(heap') = Len(heap)
       /\ \A ref \in 1..Len(heap') :
            ref \notin Refs =>
                /\ pc'[ref] \in {"timer", "threw"}
                /\ heap'[ref].status = "in_progress"
                /\ heap'[ref].errors = <<>>
       /\ \A ref \in Refs :
            (pc'[ref] = "pending" /\ pc[ref] # "pending") => pc[ref] = "timer"]_vars

\* C7 witness: a job whose start was rejected.
C7_Witness ==
    \E ref \in Refs :
        /\ pc[ref] = "rejected"
        /\ heap[ref].status = "failed"
        /\ Len(heap[ref].errors) = 1

\* the calls of initiateDownload that can be made in the current state
AllCalls == Params \X generateJobId(downloadJobs) \X BOOLEAN \X BOOLEAN

Call(c) == initiateDownload(c[1], c[2], c[3], c[4])

\* C8: whenever initiate throws, that call added no job record to the registry.
C8_ThrowAddsNoJob ==
    [][\A c \in AllCalls :
          (Initiate(c[1], c[2], c[3], c[4]) /\ Call(c).outcome # "returned") =>
              /\ downloadJobs' = downloadJobs
              /\ heap' = heap]_vars

\* C9: a call of initiate fails with a ValidationError exactly when the pack
\* expression expands to the empty set, and then the registry, the pool and
\* the filesystem are unchanged, no join is requested and no start is
\* scheduled.
C9_ValidationErrorIffEmpty ==
    \A c \in AllCalls :
        Len(heap) < MaxJobs =>
        LET r == Call(c)
        IN /\ (r.outcome = "ValidationError") <=> (expandPacks(trim(c[1].packs)) = <<>>)
           /\ r.outcome = "ValidationError" =>
                  /\ r.downloadJobs = downloadJobs
                  /\ r.heap = heap
                  /\ r.ircConnections = ircConnections
                  /\ r.dirs = dirs
                  /\ r.joins = joins
                  /\ ~r.scheduled

\* C9 witness: with a job in the registry and a connection in the pool, a call
\* whose pack expression has no valid pack number.
C9_Witness ==
    /\ downloadJobs # <<>>
    /\ ircConnections # <<>>
    /\ Len(heap) < MaxJobs
    /\ \E c \in AllCalls : Call(c).outcome = "ValidationError"

\* C11: immediately after a successful initiate, the registry holds under the
\* returned job id a record with status in_progress, requestedPacks equal to
\* the expansion of the pack expression, empty completedPacks, failedPacks and
\* errors, a startTime and no endTime.
C11_InitiateStoresFreshRecord ==
    \A c \in AllCalls :
        Len(heap) < MaxJobs =>
        LET r == Call(c)
        IN r.outcome = "returned" =>
               LET id == r.response[1].job_id
               IN /\ id \in DOMAIN r.downloadJobs
                  /\ LET job == r.heap[r.downloadJobs[id]]
                     IN /\ job.id = id
                        /\ job.status = "in_progress"
                        /\ job.requestedPacks = expandPacks(trim(c[1].packs))
                        /\ job.completedPacks = <<>>
                        /\ job.failedPacks = <<>>
                        /\ job.errors = <<>>
                        /\ job.startTime = <<clock>>
                        /\ job.endTime = <<>>

\* C11 witness: the record a returned call has just stored for packs "1-2",
\* before its timer has fired.
C11_Witness ==
    \E id \in DOMAIN downloadJobs :
        LET ref == downloadJobs[id]
        IN /\ pc[ref] = "timer"
           /\ heap[ref].id = id
           /\ heap[ref].requestedPacks = <<1, 2>>
           /\ heap[ref].status = "in_progress"
           /\ heap[ref].startTime # <<>>

\* what the caller of a call that returns gets, and what it leaves: an
\* in_progress response, the record stored in_progress, the start scheduled
ReturnsInProgress ==
    \A c \in AllCalls :
        Len(heap) < MaxJobs =>
        LET r == Call(c)
        IN r.outcome = "returned" =>
               /\ r.response[1].status = "in_progress"
               /\ r.heap[r.downloadJobs[r.response[1].job_id]].status = "in_progress"
               /\ r.scheduled

\* a job enters the state untouched, with its start pending or its call
\* thrown; nothing changes a job whose call threw, and the first step of a job
\* whose call returned is the start of its transfer
StartsAfterReturn ==
    /\ \A ref \in 1..Len(heap') :
           ref \notin Refs =>
               /\ pc'[ref] \in {"timer", "threw"}
               /\ heap'[ref].status = "in_progress"
               /\ heap'[ref].completedPacks = <<>>
               /\ heap'[ref].errors = <<>>
               /\ downloadJobs'[heap'[ref].id] = ref
    /\ \A ref \in Refs :
           (heap'[ref] # heap[ref] \/ pc'[ref] # pc[ref]) =>
               /\ pc[ref] # "threw"
               /\ pc[ref] = "timer" =>
                      (heap'[ref] = heap[ref] /\ pc'[ref] = "pending")

\* C12: initiate returns its in_progress response before the transfer is
\* started: when the call returns the stored record is in_progress with its
\* start still pending, and no step changes a job before that; the first step
\* of a job after the return is the start of its transfer.
C12_ReturnsBeforeStart == []ReturnsInProgress /\ [][StartsAfterReturn]_vars

\* C12 witness: a job whose call has returned and whose start is still
\* pending, in_progress, while an earlier job is already receiving events.
C12_Witness ==
    \E ref \in Refs, other \in Refs :
        /\ pc[ref] = "timer"
        /\ heap[ref].status = "in_progress"
        /\ other < ref
        /\ pc[other] = "wired"
        /\ heap[other].completedPacks # <<>>

\* C13: every successful initiate stores its job under an id that is not yet
\* in the registry: the step of a call that returns leaves every id of the
\* registry standing for the record it stood for (stated for registries whose
\* records all come from calls that returned).
C13_IdsNeverReused ==
    [][(/\ Len(heap') = Len(heap) + 1
        /\ pc'[Len(heap')] = "timer"
        /\ \A ref \in Refs : pc[ref] # "threw") =>
          /\ heap'[Len(heap')].id \notin DOMAIN downloadJobs
          /\ \A id \in DOMAIN downloadJobs :
                 /\ id \in DOMAIN downloadJobs'
                 /\ downloadJobs'[id] = downloadJobs[id]]_vars

\* the constructor calls made for a key
ConnectsFor(key) == {i \in DOMAIN connects : connects[i].key = key}

\* what an acquisition for a key that is already in the pool does: it does not
\* throw, calls neither mkdirSync nor the constructor, and returns the
\* connection the pool holds
ReacquireReturnsPooled ==
    \A params \in PoolParams, mkdirOk \in BOOLEAN, connectOk \in BOOLEAN :
        LET key == connectionKey(params.host, params.port)
            r == getXdccConnection(ircConnections, dirs, connects, params.host,
                                   params.port, params.nickname,
                                   params.download_path, mkdirOk, connectOk)
        IN key \in DOMAIN ircConnections =>
               /\ ~r.threw
               /\ r.connects = connects
               /\ DOMAIN r.conns = DOMAIN ircConnections
               /\ r.conns[key] = ircConnections[key]

\* every pooled connection is the one a constructor call for its key returned
PooledIsConnected ==
    \A key \in DOMAIN ircConnections :
        LET handle == ircConnections[key].handle
        IN /\ handle \in ConnectsFor(key)
           /\ connects[handle].ok

\* C14: after any sequence of initiate calls the pool holds at most one
\* connection per host:port key, the external connect operation has been
\* invoked at most once per key, and a second acquisition for an existing key
\* does not fail and returns the same connection handle.
C14_ConnectInvokedOncePerKey ==
    /\ \A i \in DOMAIN connects : ConnectsFor(connects[i].key) = {i}
    /\ PooledIsConnected
    /\ ReacquireReturnsPooled

\* C14 as amended: the external connect operation has returned a connection
\* at most once per key and is not invoked again for a key that is in the
\* pool; only a connect that threw is followed by another one for its key.
C14_OneConnectionPerKey ==
    /\ \A i \in DOMAIN connects :
           connects[i].ok =>
               /\ {j \in ConnectsFor(connects[i].key) : connects[j].ok} = {i}
               /\ \A j \in ConnectsFor(connects[i].key) : j <= i
               /\ connects[i].key \in DOMAIN ircConnections
    /\ PooledIsConnected
    /\ ReacquireReturnsPooled

\* C14 witness: two acquisitions (two joins) on one pooled connection, which
\* a single constructor call made.
C14_Witness ==
    \E i \in DOMAIN joins, j \in DOMAIN joins :
        /\ i < j
        /\ joins[i].key = joins[j].key
        /\ joins[i].key \in DOMAIN ircConnections
        /\ ConnectsFor(joins[i].key) = {1}
        /\ connects[1].ok

\* the calls of initiateDownload of SpecPool that can be made in the current
\* state
PoolCalls == PoolParams \X generateJobId(downloadJobs) \X BOOLEAN \X BOOLEAN

\* the pool key of the job a step has just created
NewJobKey == connectionKey(heap'[Len(heap')].host, heap'[Len(heap')].port)

C16_UnknownIdIsFailedSnapshot ==
    \A i \in DOMAIN snapshot :
        snapshot[i].job_id \notin DOMAIN downloadJobs =>
            /\ snapshot[i].status = "failed"
            /\ snapshot[i].message =
                   "Download job with ID " \o snapshot[i].job_id \o " not found"
            /\ snapshot[i].completedPacks = <<>>
            /\ snapshot[i].failedPacks = <<>>
            /\ snapshot[i].errors = <<>>
            /\ snapshot[i].startTime = <<>>
            /\ snapshot[i].endTime = <<>>

\* C16 witness: the response to a query for an id that is not in the registry,
\* while the registry holds a job that is in progress.
C16_Witness ==
    /\ snapshot # <<>>
    /\ snapshot[1].job_id = UnknownJobId
    /\ UnknownJobId \notin DOMAIN downloadJobs
    /\ \E ref \in Refs : heap[ref].status = "in_progress"

\* C17: get_download_status is read-only: a query for any job id, known or
\* unknown, leaves every job record, the ids of the registry and the
\* connection pool unchanged.
C17_StatusQueryReadOnly ==
    [][\A job_id \in DOMAIN downloadJobs \cup {UnknownJobId} :
          StatusQuery(job_id) =>
              /\ heap' = heap
              /\ downloadJobs' = downloadJobs
              /\ ircConnections' = ircConnections
              /\ connects' = connects
              /\ joins' = joins
              /\ dirs' = dirs]_vars

\* C17 witness: the response to a query for a known job that has failed with
\* two of its packs completed; its record still has no end time.
C17_Witness ==
    /\ snapshot # <<>>
    /\ snapshot[1].job_id \in DOMAIN downloadJobs
    /\ snapshot[1].status = "failed"
    /\ snapshot[1].completedPacks = <<1, 2>>
    /\ heap[downloadJobs[snapshot[1].job_id]].endTime = <<>>

\* C18: for a known job the progress percentage is 100 * |completedPacks| /
\* |requestedPacks| rounded to the nearest integer, the progress field shows
\* it with |completedPacks|/|requestedPacks|, and the message of an
\* in_progress job contains |completedPacks|/|requestedPacks|.
C18_ProgressIsRoundedRatio ==
    \A i \in DOMAIN snapshot :
        snapshot[i].job_id \in DOMAIN downloadJobs =>
            LET job == heap[downloadJobs[snapshot[i].job_id]]
                completed == Len(job.completedPacks)
                requested == Len(job.requestedPacks)
                ratio == ToString(completed) \o "/" \o ToString(requested)
            IN \E percent \in 0..(100 * MaxPacks) :
                   /\ 2 * percent * requested <= 200 * completed + requested
                   /\ 2 * percent * requested >= 200 * completed - requested
                   /\ snapshot[i].progress =
                          ToString(percent) \o "% (" \o ratio \o ")"
                   /\ snapshot[i].status = "in_progress" =>
                          snapshot[i].message =
                              "Download in progress: " \o ratio
                              \o " packs completed (" \o ToString(percent) \o "%)"

\* C18 witness: 4 requested and 1 completed gives 25 and "1/4".
C18_Witness ==
    /\ snapshot # <<>>
    /\ snapshot[1].status = "in_progress"
    /\ snapshot[1].progress = "25% (1/4)"
    /\ snapshot[1].message = "Download in progress: 1/4 packs completed (25%)"

\* C19: for every job, completedPacks and failedPacks only grow: across every
\* step the previous value of each set is a subset of its next value.
C19_PackSetsOnlyGrow ==
    [][\A ref \in Refs :
          /\ Elements(heap[ref].completedPacks)
                 \subseteq Elements(heap'[ref].completedPacks)
          /\ Elements(heap[ref].failedPacks)
                 \subseteq Elements(heap'[ref].failedPacks)]_vars

\* C19 witness: a job that kept both of its completed packs through a later
\* pack failure.
C19_Witness ==
    \E ref \in Refs :
        /\ pc[ref] = "wired"
        /\ heap[ref].completedPacks = <<1, 2>>
        /\ heap[ref].errors # <<>>

\* C20: every snapshot equals the job record as it stands between two events,
\* and such a record is never half-way through a transition: it is not
\* in_progress with as many completed packs as requested ones, and not failed
\* with no error logged.
C20_SnapshotAtEventBoundary ==
    \A job_id \in DOMAIN downloadJobs :
        LET job == heap[downloadJobs[job_id]]
            response == getDownloadStatus(downloadJobs, heap, job_id)
        IN /\ response.job_id = job_id
           /\ response.status = job.status
           /\ response.completedPacks = job.completedPacks
           /\ response.failedPacks = job.failedPacks
           /\ response.errors = job.errors
           /\ response.startTime = job.startTime
           /\ response.status = "in_progress" =>
                  Len(response.completedPacks) # Len(job.requestedPacks)
           /\ response.status = "failed" => response.errors # <<>>

\* C20 witness: while one job is completed with both of its packs, a query for
\* another one, under way with one pack of two, is answered between events.
C20_Witness ==
    \E job_id \in DOMAIN downloadJobs, ref \in Refs :
        LET response == getDownloadStatus(downloadJobs, heap, job_id)
        IN /\ downloadJobs[job_id] # ref
           /\ heap[ref].status = "completed"
           /\ heap[ref].completedPacks = <<1, 2>>
           /\ response.status = "in_progress"
           /\ response.completedPacks = <<1>>
           /\ response.progress = "50% (1/2)"

\* C21: an event that arrives for a job already completed or failed is
\* discarded: it leaves the job's completedPacks, failedPacks, errors and
\* status unchanged.
C21_TerminalJobDiscardsEvents ==
    [][\A ref \in Refs :
          heap[ref].status \in Terminal =>
              /\ heap'[ref].completedPacks = heap[ref].completedPacks
              /\ heap'[ref].failedPacks = heap[ref].failedPacks
              /\ heap'[ref].errors = heap[ref].errors
              /\ heap'[ref].status = heap[ref].status]_vars

\* C22: a progress event never mutates state: handling it leaves every field
\* of every job record and the connection pool unchanged, whatever the job's
\* status.
C22_ProgressEventMutatesNothing ==
    [][\A ref \in Refs :
          (pc[ref] = "wired" /\ Downloading(ref)) =>
              /\ heap' = heap
              /\ downloadJobs' = downloadJobs
              /\ ircConnections' = ircConnections
              /\ connects' = connects
              /\ joins' = joins]_vars

\* C22 witness: two jobs whose handlers are registered, one completed and one
\* failed, so that progress events can reach a job in either terminal status.
C22_Witness ==
    \E ref \in Refs, other \in Refs :
        /\ pc[ref] = "wired"
        /\ pc[other] = "wired"
        /\ heap[ref].status = "completed"
        /\ heap[other].status = "failed"

\* C23: no reachable state has a job with status partially_completed: a job
\* is in_progress, completed or failed, also when a pack fails after other
\* packs of the job have completed.
C23_NeverPartiallyCompleted ==
    \A ref \in Refs : heap[ref].status \in {"in_progress", "completed", "failed"}

\* C23 witness: a pack failure after one of two packs had completed; the job
\* is failed, and its status message counts one error.
C23_Witness ==
    \E job_id \in DOMAIN downloadJobs :
        LET job == heap[downloadJobs[job_id]]
        IN /\ job.requestedPacks = <<1, 2>>
           /\ job.completedPacks = <<1>>
           /\ Len(job.errors) = 1
           /\ job.errors[1].message = "transfer failed"
           /\ getDownloadStatus(downloadJobs, heap, job_id).message =
                  "Download failed: 1 errors occurred"

\* a step that handles, for the job, a pack-completed event, a pack-failed
\* event or the rejection of its transfer start
TerminalEventFor(ref) ==
    \/ \E success \in SuccessLists : Downloaded(ref, success)
    \/ \E errorMessage \in ErrorMessages : ErrorEvent(ref, errorMessage)
    \/ \E error \in StartErrors : StartRejected(ref, error)

\* C24: a job leaves in_progress only in a step that handles a pack-completed
\* event, a pack-failed event or a rejection of the transfer start for that
\* job; without such a step it stays in_progress, as nothing times a transfer
\* out or cancels it.
C24_LeavesInProgressOnlyByEvent ==
    [][\A ref \in Refs :
          (heap[ref].status = "in_progress" /\ heap'[ref].status # "in_progress")
              => TerminalEventFor(ref)]_vars

\* C24 witness: a job that left in_progress by the rejection of its start,
\* next to a job whose transfer started and has reported nothing.
C24_Witness ==
    \E ref \in Refs, other \in Refs :
        /\ pc[ref] = "rejected"
        /\ heap[ref].status = "failed"
        /\ pc[other] = "wired"
        /\ heap[other].status = "in_progress"
        /\ heap[other].completedPacks = <<>>
        /\ heap[other].errors = <<>>

C26_ErrorsAppendOnly ==
    [][\A ref \in Refs :
          /\ Len(heap'[ref].errors) >= Len(heap[ref].errors)
          /\ SubSeq(heap'[ref].errors, 1, Len(heap[ref].errors)) = heap[ref].errors]_vars

\* C26 witness: a job whose errors log holds two different entries, in the
\* order of their arrival, with a pack completed in between.
C26_Witness ==
    \E ref \in Refs :
        /\ Len(heap[ref].errors) = 2
        /\ heap[ref].errors[1].message = "transfer failed"
        /\ heap[ref].errors[2].message = "no such pack"
        /\ heap[ref].completedPacks # <<>>

\* C27: a job's id, host, port, channel, bot, requestedPacks and startTime
\* are fixed at creation: no step changes them.
C27_IdentityFieldsFixed ==
    [][\A ref \in Refs :
          /\ heap'[ref].id = heap[ref].id
          /\ heap'[ref].host = heap[ref].host
          /\ heap'[ref].port = heap[ref].port
          /\ heap'[ref].channel = heap[ref].channel
          /\ heap'[ref].bot = heap[ref].bot
          /\ heap'[ref].requestedPacks = heap[ref].requestedPacks
          /\ heap'[ref].startTime = heap[ref].startTime]_vars

\* C27 witness: a job created at time 0 that has completed both of its packs
\* and kept its creation fields through a later initiate.
C27_Witness ==
    /\ Len(heap) = 2
    /\ heap[1].startTime = <<0>>
    /\ heap[1].requestedPacks = <<1, 2>>
    /\ heap[1].completedPacks = <<1, 2>>
    /\ heap[1].status = "completed"
    /\ heap[2].startTime = <<1>>

\* C28: in every reachable state a completed job has every one of its
\* requested packs in completedPacks.
C28_CompletedHasAllRequested ==
    \A ref \in Refs :
        heap[ref].status = "completed" =>
            Elements(heap[ref].requestedPacks)
                \subseteq Elements(heap[ref].completedPacks)

\* C29: in every reachable state a failed job has at least one entry in its
\* errors log.
C29_FailedHasError ==
    \A ref \in Refs : heap[ref].status = "failed" => Len(heap[ref].errors) >= 1

\* C29 witness: a job failed by a pack failure before any pack completed.
C29_Witness ==
    \E ref \in Refs :
        /\ pc[ref] = "wired"
        /\ heap[ref].status = "failed"
        /\ heap[ref].completedPacks = <<>>
        /\ Len(heap[ref].errors) = 1

\* C30: an event delivered on one job's transfer (pack-completed,
\* pack-failed, progress or start rejection) changes only that job's record:
\* the records of all other jobs are unchanged by that step.
C30_EventTouchesOnlyItsJob ==
    [][\A ref \in Refs :
          \/ \A other \in Refs \ {ref} :
                 /\ heap'[other] = heap[other]
                 /\ pc'[other] = pc[other]
          \/ ~ /\ pc[ref] \in {"pending", "wired"}
               /\ (Downloading(ref) \/ TerminalEventFor(ref))]_vars

\* C30 witness: two jobs for packs 1-2 on one pooled connection, both with
\* their handlers registered; one has been told of pack 1, the other of
\* nothing.
C30_Witness ==
    /\ Len(heap) = 2
    /\ DOMAIN ircConnections = {connectionKey(heap[1].host, heap[1].port)}
    /\ heap[2].host = heap[1].host
    /\ pc = <<"wired", "wired">>
    /\ heap[1].requestedPacks = <<1, 2>>
    /\ heap[2].requestedPacks = <<1, 2>>
    /\ heap[1].completedPacks = <<1>>
    /\ heap[2].completedPacks = <<>>
    /\ heap[2].status = "in_progress"

\* C31: for every known job, the progress percentage that a status query
\* reports is an integer between 0 and 100 inclusive.
C31_PercentWithinRange ==
    \A i \in DOMAIN snapshot :
        snapshot[i].job_id \in DOMAIN downloadJobs =>
            LET job == heap[downloadJobs[snapshot[i].job_id]]
                ratio == ToString(Len(job.completedPacks)) \o "/"
                         \o ToString(Len(job.requestedPacks))
            IN \E percent \in 0..100 :
                   snapshot[i].progress =
                       ToString(percent) \o "% (" \o ratio \o ")"

\* C32: in every reachable state failedPacks of every job is empty, and the
\* response of a status query for any job id reports an empty failedPacks.
C32_FailedPacksEmpty ==
    /\ \A ref \in Refs : heap[ref].failedPacks = <<>>
    /\ \A job_id \in DOMAIN downloadJobs \cup {UnknownJobId} :
           getDownloadStatus(downloadJobs, heap, job_id).failedPacks = <<>>

\* C32 witness: a job that requested packs 1-2, completed pack 1 and then
\* received a pack failure, whose status response shows it failed with one
\* error.
C32_Witness ==
    \E job_id \in DOMAIN downloadJobs :
        LET ref == downloadJobs[job_id]
            response == getDownloadStatus(downloadJobs, heap, job_id)
        IN /\ pc[ref] = "wired"
           /\ heap[ref].requestedPacks = <<1, 2>>
           /\ heap[ref].completedPacks = <<1>>
           /\ Len(heap[ref].errors) = 1
           /\ response.status = "failed"
           /\ response.completedPacks = <<1>>
           /\ response.message = "Download failed: 1 errors occurred"

IsInteger(s) == s # <<>> /\ \A i \in DOMAIN s : s[i] \in Digits

\* the packs one token names: itself if it is an integer, start..end if it is
\* a range of two integers, nothing otherwise
TokenPacks(token) ==
    LET t == trim(token)
        pieces == split(t, "-")
    IN IF IsInteger(t) THEN {DecimalValue(t)}
       ELSE IF /\ Len(pieces) = 2
               /\ IsInteger(trim(pieces[1]))
               /\ IsInteger(trim(pieces[2]))
       THEN DecimalValue(trim(pieces[1]))..DecimalValue(trim(pieces[2]))
       ELSE {}

GrammarPacks(e) == UNION {TokenPacks(token) : token \in Elements(split(e, ","))}

\* C10: expandPacks returns exactly the integers named by the tokens that are
\* an integer or a range start-end with start <= end; every other token
\* contributes nothing.
C10_ExpandMatchesGrammar ==
    expanded # <<>> => Elements(expanded[1]) = GrammarPacks(expr)

====
